---- MODULE Spec2Model ----
(***************************************************************************)
(* Required Return Calculator (Gordon Growth Model).                       *)
(*                                                                         *)
(* State machine of the React component RequiredReturnCalculator / App:    *)
(* the input record held in useState, the validation mapping computed on   *)
(* every render and the memoised model.  JavaScript numbers are modelled   *)
(* as exact signed rationals over arbitrary-precision naturals, so that    *)
(* Math.pow(1 + g, 10) is representable; floating-point rounding is not    *)
(* modelled.                                                               *)
(***************************************************************************)
EXTENDS Integers, Sequences, FiniteSets, TLC

VARIABLES
    inputs,       \* useState record of RequiredReturnCalculator
    inputErrors,  \* validateInputs(inputs) of the last render
    model,        \* value held by the model memo
    deps,         \* identities <<inputs, inputErrors>> the memo last saw
    chartData,    \* value held by the chartData memo
    view,         \* what the last render put on the page
    pending,      \* setInputs updaters queued for the next render
    processed,    \* number of updaters the last render applied
    appInputs,      \* useState record of App (second implementation)
    appInputErrors, \* its validateInputs(inputs)
    appModel,       \* its model memo
    appView         \* what its last render put on the page

appVars == <<appInputs, appInputErrors, appModel, appView>>

vars == <<inputs, inputErrors, model, deps, chartData, view, pending, processed,
          appInputs, appInputErrors, appModel, appView>>

-----------------------------------------------------------------------------
(* Arbitrary-precision naturals: little-endian limbs, no high zero limb.   *)

BASE == 10000

RECURSIVE BigFromNat(_)
BigFromNat(n) ==
    IF n = 0 THEN <<>> ELSE <<n % BASE>> \o BigFromNat(n \div BASE)

RECURSIVE BigAddC(_, _, _)
BigAddC(a, b, c) ==
    IF a = <<>> /\ b = <<>>
    THEN IF c = 0 THEN <<>> ELSE <<c>>
    ELSE LET x == IF a = <<>> THEN 0 ELSE Head(a)
             y == IF b = <<>> THEN 0 ELSE Head(b)
             s == x + y + c
         IN  <<s % BASE>> \o BigAddC(IF a = <<>> THEN <<>> ELSE Tail(a),
                                     IF b = <<>> THEN <<>> ELSE Tail(b),
                                     s \div BASE)

BigAdd(a, b) == BigAddC(a, b, 0)

RECURSIVE BigMulSmall(_, _, _)
BigMulSmall(a, m, c) ==
    IF a = <<>>
    THEN IF c = 0 THEN <<>> ELSE <<c>>
    ELSE LET p == Head(a) * m + c
         IN  <<p % BASE>> \o BigMulSmall(Tail(a), m, p \div BASE)

BigShift(a) == IF a = <<>> THEN <<>> ELSE <<0>> \o a

RECURSIVE BigMul(_, _)
BigMul(a, b) ==
    IF a = <<>> \/ b = <<>> THEN <<>>
    ELSE BigAdd(BigMulSmall(a, Head(b), 0), BigShift(BigMul(a, Tail(b))))

RECURSIVE BigLessFrom(_, _, _)
BigLessFrom(a, b, i) ==
    IF i = 0 THEN FALSE
    ELSE IF a[i] # b[i] THEN a[i] < b[i]
    ELSE BigLessFrom(a, b, i - 1)

BigLess(a, b) ==
    IF Len(a) # Len(b) THEN Len(a) < Len(b) ELSE BigLessFrom(a, b, Len(a))

RECURSIVE BigStrip(_)
BigStrip(a) ==
    IF a = <<>> THEN <<>>
    ELSE IF a[Len(a)] = 0 THEN BigStrip(SubSeq(a, 1, Len(a) - 1))
    ELSE a

RECURSIVE BigSubB(_, _, _)
BigSubB(a, b, borrow) ==
    IF a = <<>> THEN <<>>
    ELSE LET y == IF b = <<>> THEN 0 ELSE Head(b)
             t == Head(a) - y - borrow
         IN  <<IF t < 0 THEN t + BASE ELSE t>>
             \o BigSubB(Tail(a), IF b = <<>> THEN <<>> ELSE Tail(b),
                        IF t < 0 THEN 1 ELSE 0)

\* a - b for a >= b
BigSub(a, b) == BigStrip(BigSubB(a, b, 0))

-----------------------------------------------------------------------------
(* Numbers: signed rationals neg * num / den with den > 0.                 *)

RECURSIVE GCD(_, _)
GCD(a, b) == IF b = 0 THEN a ELSE GCD(b, a % b)

\* the number n / d for naturals n, d (d > 0), in lowest terms
Dec(n, d) ==
    LET k == GCD(n, d)
    IN  [neg |-> FALSE, num |-> BigFromNat(n \div k), den |-> BigFromNat(d \div k)]

Num(n) == Dec(n, 1)

IsZero(a) == a.num = <<>>

RSign(a) == IF IsZero(a) THEN 0 ELSE IF a.neg THEN -1 ELSE 1

RNeg(a) == [a EXCEPT !.neg = ~a.neg]

RMul(a, b) ==
    [neg |-> a.neg # b.neg, num |-> BigMul(a.num, b.num), den |-> BigMul(a.den, b.den)]

\* a / b for b # 0
RDiv(a, b) ==
    [neg |-> a.neg # b.neg, num |-> BigMul(a.num, b.den), den |-> BigMul(a.den, b.num)]

RAdd(a, b) ==
    LET na == BigMul(a.num, b.den)
        nb == BigMul(b.num, a.den)
        d  == BigMul(a.den, b.den)
    IN  IF a.neg = b.neg
        THEN [neg |-> a.neg, num |-> BigAdd(na, nb), den |-> d]
        ELSE IF BigLess(na, nb)
        THEN [neg |-> b.neg, num |-> BigSub(nb, na), den |-> d]
        ELSE IF BigLess(nb, na)
        THEN [neg |-> a.neg, num |-> BigSub(na, nb), den |-> d]
        ELSE [neg |-> FALSE, num |-> <<>>, den |-> d]

RLess(a, b) ==
    LET sa == RSign(a)
        sb == RSign(b)
    IN  IF sa # sb THEN sa < sb
        ELSE IF sa = 0 THEN FALSE
        ELSE IF sa = 1
        THEN BigLess(BigMul(a.num, b.den), BigMul(b.num, a.den))
        ELSE BigLess(BigMul(b.num, a.den), BigMul(a.num, b.den))

RGreater(a, b) == RLess(b, a)

\* numeric equality (JavaScript ===) of two numbers
REq(a, b) == ~RLess(a, b) /\ ~RLess(b, a)

RECURSIVE RPow(_, _)
RPow(x, n) == IF n = 0 THEN Num(1) ELSE RMul(RPow(x, n - 1), x)

-----------------------------------------------------------------------------
(* The unary plus of handleInputChange: `+value' on the text of an         *)
(* <input type="number">, whose value is either empty or a decimal         *)
(* literal.  Text is a sequence of one-character strings.                  *)

DigitVal(c) ==
    CASE c = "0" -> 0 [] c = "1" -> 1 [] c = "2" -> 2 [] c = "3" -> 3
      [] c = "4" -> 4 [] c = "5" -> 5 [] c = "6" -> 6 [] c = "7" -> 7
      [] c = "8" -> 8 [] c = "9" -> 9

\* <<digits read as one integer, number of digits after the point>>
RECURSIVE ParseDigits(_, _, _, _)
ParseDigits(s, acc, frac, seenDot) ==
    IF s = <<>> THEN <<acc, frac>>
    ELSE IF Head(s) = "." THEN ParseDigits(Tail(s), acc, frac, TRUE)
    ELSE ParseDigits(Tail(s), acc * 10 + DigitVal(Head(s)),
                     IF seenDot THEN frac + 1 ELSE frac, seenDot)

RECURSIVE Pow10(_)
Pow10(n) == IF n = 0 THEN 1 ELSE 10 * Pow10(n - 1)

ToNumber(value) ==
    IF value = <<>> THEN Num(0)
    ELSE LET minus == Head(value) = "-"
             body  == IF minus THEN Tail(value) ELSE value
             p     == ParseDigits(body, 0, 0, FALSE)
             r     == Dec(p[1], Pow10(p[2]))
         IN  IF minus THEN RNeg(r) ELSE r

-----------------------------------------------------------------------------
(* Program constants.                                                      *)

Fields == {"marketPrice", "dividendAmount", "growthRate"}

MsgPriceLow     == "Market price must be at least $1"
MsgPriceHigh    == "Market price cannot exceed $500"
MsgDividendLow  == "Dividend cannot be negative"
MsgDividendHigh == "Dividend cannot exceed $50"
MsgGrowthLow    == "Growth rate cannot be negative"
MsgGrowthHigh   == "Growth rate cannot exceed 25%"

MinPrice    == 1
MaxPrice    == 500
MaxDividend == 50
MaxGrowth   == 25
LastYear    == 10

DefaultInputs ==
    [marketPrice    |-> Dec(5456, 100),
     dividendAmount |-> Dec(510, 100),
     growthRate     |-> Dec(640, 100)]

NULL == [null |-> TRUE]

-----------------------------------------------------------------------------
(* validateInputs                                                          *)

\* errors[k] = v on an object
Put(obj, k, v) == [x \in DOMAIN obj \cup {k} |-> IF x = k THEN v ELSE obj[x]]

\* JavaScript !x for a number
Not(x) == IsZero(x)

\* variant: lower bound tested with <=
PriceRule_Strict(errors, in) ==
    IF Not(in.marketPrice) \/ ~RGreater(in.marketPrice, Num(MinPrice))
    THEN Put(errors, "marketPrice", MsgPriceLow)
    ELSE IF RGreater(in.marketPrice, Num(MaxPrice))
    THEN Put(errors, "marketPrice", MsgPriceHigh)
    ELSE errors

\* variant: lower bound tested against 0
PriceRule_NegativeOnly(errors, in) ==
    IF Not(in.marketPrice) \/ RLess(in.marketPrice, Num(0))
    THEN Put(errors, "marketPrice", MsgPriceLow)
    ELSE IF RGreater(in.marketPrice, Num(MaxPrice))
    THEN Put(errors, "marketPrice", MsgPriceHigh)
    ELSE errors

PriceRule(errors, in) ==
    IF Not(in.marketPrice) \/ RLess(in.marketPrice, Num(MinPrice))
    THEN Put(errors, "marketPrice", MsgPriceLow)
    ELSE IF RGreater(in.marketPrice, Num(MaxPrice))
    THEN Put(errors, "marketPrice", MsgPriceHigh)
    ELSE errors

\* variant: upper bound tested with >=
DividendRule_Inclusive(errors, in) ==
    IF RLess(in.dividendAmount, Num(0))
    THEN Put(errors, "dividendAmount", MsgDividendLow)
    ELSE IF ~RLess(in.dividendAmount, Num(MaxDividend))
    THEN Put(errors, "dividendAmount", MsgDividendHigh)
    ELSE errors

DividendRule(errors, in) ==
    IF RLess(in.dividendAmount, Num(0))
    THEN Put(errors, "dividendAmount", MsgDividendLow)
    ELSE IF RGreater(in.dividendAmount, Num(MaxDividend))
    THEN Put(errors, "dividendAmount", MsgDividendHigh)
    ELSE errors

\* variant: upper bound tested with >=
GrowthRule_Inclusive(errors, in) ==
    IF RLess(in.growthRate, Num(0))
    THEN Put(errors, "growthRate", MsgGrowthLow)
    ELSE IF ~RLess(in.growthRate, Num(MaxGrowth))
    THEN Put(errors, "growthRate", MsgGrowthHigh)
    ELSE errors

GrowthRule(errors, in) ==
    IF RLess(in.growthRate, Num(0))
    THEN Put(errors, "growthRate", MsgGrowthLow)
    ELSE IF RGreater(in.growthRate, Num(MaxGrowth))
    THEN Put(errors, "growthRate", MsgGrowthHigh)
    ELSE errors

\* variant: the three rules chained with else-if
validateInputs_ShortCircuit(in) ==
    LET e1 == PriceRule(<<>>, in)
        e2 == DividendRule(<<>>, in)
    IN  IF e1 # <<>> THEN e1
        ELSE IF e2 # <<>> THEN e2
        ELSE GrowthRule(<<>>, in)

validateInputs(in) == GrowthRule(DividendRule(PriceRule(<<>>, in), in), in)

ObjectKeysLength(obj) == Cardinality(DOMAIN obj)

-----------------------------------------------------------------------------
(* The model memo: the Gordon Growth computation.                          *)

\* variant: exponent one year behind
CashflowEntry_OffByOne(year, d0, g, price) ==
    IF year = 0
    THEN [year |-> year, dividend |-> Num(0),
          investment |-> RNeg(price), total |-> RNeg(price)]
    ELSE LET dividend == RMul(d0, RPow(RAdd(Num(1), g), year - 1))
         IN  [year |-> year, dividend |-> dividend,
              investment |-> Num(0), total |-> dividend]

CashflowEntry(year, d0, g, price) ==
    IF year = 0
    THEN [year |-> year, dividend |-> Num(0),
          investment |-> RNeg(price), total |-> RNeg(price)]
    ELSE LET dividend == RMul(d0, RPow(RAdd(Num(1), g), year))
         IN  [year |-> year, dividend |-> dividend,
              investment |-> Num(0), total |-> dividend]

\* variant: loop bound tested with <
RECURSIVE CashflowLoop_Exclusive(_, _, _, _, _)
CashflowLoop_Exclusive(year, cashflows, d0, g, price) ==
    IF year < LastYear
    THEN CashflowLoop_Exclusive(year + 1,
                                Append(cashflows, CashflowEntry(year, d0, g, price)),
                                d0, g, price)
    ELSE cashflows

RECURSIVE CashflowLoop(_, _, _, _, _)
CashflowLoop(year, cashflows, d0, g, price) ==
    IF year <= LastYear
    THEN CashflowLoop(year + 1, Append(cashflows, CashflowEntry(year, d0, g, price)),
                      d0, g, price)
    ELSE cashflows

NextDividend(d0, g) == RMul(d0, RAdd(Num(1), g))

\* variant: the sum taken before the division
RequiredReturn_Precedence(d1, price, g) == RDiv(RAdd(d1, g), price)

\* variant: the dividend yield alone
RequiredReturn_YieldOnly(d1, price, g) == RDiv(d1, price)

RequiredReturn(d1, price, g) == RAdd(RDiv(d1, price), g)

\* variant: growth rate compared with <=
ModelIsValid_Inclusive(g, requiredReturn, requiredReturnPct) ==
    ~RLess(requiredReturn, g) /\ RGreater(requiredReturnPct, Num(0))

ModelIsValid(g, requiredReturn, requiredReturnPct) ==
    RLess(g, requiredReturn) /\ RGreater(requiredReturnPct, Num(0))

GordonGrowth(in) ==
    LET g     == RDiv(in.growthRate, Num(100))
        d0    == in.dividendAmount
        d1    == NextDividend(d0, g)
        price == in.marketPrice
        requiredReturn    == RequiredReturn(d1, price, g)
        requiredReturnPct == RMul(requiredReturn, Num(100))
    IN  [requiredReturn |-> requiredReturnPct,
         d1             |-> d1,
         cashflows      |-> CashflowLoop(0, <<>>, d0, g, price),
         isValid        |-> ModelIsValid(g, requiredReturn, requiredReturnPct)]

\* variant: only the marketPrice entry blocks the computation
ModelMemo_PriceOnly(in, errs) ==
    IF "marketPrice" \in DOMAIN errs THEN NULL ELSE GordonGrowth(in)

ModelMemo(in, errs) ==
    IF ObjectKeysLength(errs) > 0 THEN NULL ELSE GordonGrowth(in)

-----------------------------------------------------------------------------
(* Input events: the text a user can leave in each field.                  *)

EventValues ==
    [marketPrice    |-> { <<>>, <<"0">>, <<"-", "3">>, <<"0", ".", "5">>, <<"1">>,
                          <<"5", "0">>, <<"5", "0", "0">>,
                          <<"5", "0", "0", ".", "0", "1">> },
     dividendAmount |-> { <<"-", "0", ".", "0", "1">>, <<"0">>, <<"4", "0">>,
                          <<"5", "0">>, <<"5", "0", ".", "0", "1">>, <<"6", "0">> },
     growthRate     |-> { <<"-", "1">>, <<"0">>, <<"2", "0">>, <<"2", "5">>,
                          <<"2", "5", ".", "0", "1">> }]

\* variant: the record rebuilt from the initial values
SetField_FromDefaults(prev, field, value) ==
    [DefaultInputs EXCEPT ![field] = ToNumber(value)]

\* setInputs(prev => ({ ...prev, [field]: +value }))
SetField(prev, field, value) == [prev EXCEPT ![field] = ToNumber(value)]

\* the updater closure handed to setInputs
Updater(field, value) == [field |-> field, value |-> value]

\* variant: every updater works on the record of the last render, as with
\* setInputs({ ...inputs, [field]: +value })
RECURSIVE ApplyUpdates_Stale(_, _)
ApplyUpdates_Stale(prev, queue) ==
    IF queue = <<>> THEN prev
    ELSE SetField(prev, queue[Len(queue)].field, queue[Len(queue)].value)

\* React runs the queued updaters in dispatch order, each on the result of
\* the one before
RECURSIVE ApplyUpdates(_, _)
ApplyUpdates(prev, queue) ==
    IF queue = <<>> THEN prev
    ELSE ApplyUpdates(SetField(prev, Head(queue).field, Head(queue).value),
                      Tail(queue))

\* Object identity: an object created by a render differs from the one the
\* render before created; the memo compares with the last render only.
NewRef(ref) == 1 - ref

\* variant: an empty dependency array
DepsChanged_Never(prevDeps, nextDeps) == FALSE

\* useMemo: Object.is on each dependency
DepsChanged(prevDeps, nextDeps) ==
    \E i \in 1..Len(prevDeps) : prevDeps[i] # nextDeps[i]

UseModelMemo(prev, prevDeps, nextDeps, in, errs) ==
    IF DepsChanged(prevDeps, nextDeps) THEN ModelMemo(in, errs) ELSE prev

-----------------------------------------------------------------------------
(* Presentation of RequiredReturnCalculator.                               *)

DigitChar == <<"0", "1", "2", "3", "4", "5", "6", "7", "8", "9">>

\* Number.prototype.toString of a natural number
RECURSIVE NatToString(_)
NatToString(n) ==
    IF n < 10 THEN <<DigitChar[n + 1]>>
    ELSE NatToString(n \div 10) \o <<DigitChar[(n % 10) + 1]>>

\* variant: the bar of a year fed from the entry's total
ChartRow_Total(cf, m) ==
    [yearLabel          |-> NatToString(cf.year),
     year               |-> cf.year,
     dividendFlow       |-> cf.total,
     investmentFlow     |-> cf.investment,
     requiredReturnLine |-> m.requiredReturn]

ChartRow(cf, m) ==
    [yearLabel          |-> NatToString(cf.year),
     year               |-> cf.year,
     dividendFlow       |-> cf.dividend,
     investmentFlow     |-> cf.investment,
     requiredReturnLine |-> m.requiredReturn]

ChartData(m) ==
    IF m = NULL THEN <<>>
    ELSE [i \in 1..Len(m.cashflows) |-> ChartRow(m.cashflows[i], m)]

\* insertion order of the keys of an errors object
FieldOrder == <<"marketPrice", "dividendAmount", "growthRate">>

RECURSIVE EntriesFrom(_, _)
EntriesFrom(errors, i) ==
    IF i > Len(FieldOrder) THEN <<>>
    ELSE (IF FieldOrder[i] \in DOMAIN errors THEN <<errors[FieldOrder[i]]>> ELSE <<>>)
         \o EntriesFrom(errors, i + 1)

\* the list items of <ValidationMessage>; empty when it renders null
ValidationMessage(errors) ==
    IF ObjectKeysLength(errors) = 0 THEN <<>> ELSE EntriesFrom(errors, 1)

WarningShown(m) == m # NULL /\ ~m.isValid

ResultShown(m) == m # NULL /\ m.isValid

ViewOf(errs, m, rows) ==
    [fieldErrors |-> errs,
     messages    |-> ValidationMessage(errs),
     warning     |-> WarningShown(m),
     result      |-> ResultShown(m),
     table       |-> IF ResultShown(m) THEN rows ELSE <<>>,
     chart       |-> IF ResultShown(m) THEN rows ELSE <<>>]

-----------------------------------------------------------------------------
(* Renders and events.                                                     *)

\* one render of the component with state `in', an object of identity inRef
Render(in, inRef) ==
    /\ inputs' = in
    /\ inputErrors' = validateInputs(inputs')
    /\ deps' = <<inRef, NewRef(deps[2])>>
    /\ model' = UseModelMemo(model, deps, deps', inputs', inputErrors')
    /\ chartData' = ChartData(model')
    /\ view' = ViewOf(inputErrors', model', chartData')

\* the render that follows a batch of queued updaters
RenderQueue(queue) ==
    /\ Render(ApplyUpdates(inputs, queue), NewRef(deps[1]))
    /\ processed' = Len(queue)
    /\ pending' = <<>>

\* an onChange event, rendered before the next event
handleInputChange(field, value) ==
    /\ pending = <<>>
    /\ RenderQueue(Append(pending, Updater(field, value)))

-----------------------------------------------------------------------------
(* The second implementation: component App.                               *)

App_DefaultInputs ==
    [marketPrice    |-> Dec(5456, 100),
     dividendAmount |-> Dec(510, 100),
     growthRate     |-> Dec(640, 100)]

\* variant: marketPrice capped at 1000
App_validateInputs_Cap(in) ==
    LET e1 == IF Not(in.marketPrice) \/ RLess(in.marketPrice, Num(1))
              THEN Put(<<>>, "marketPrice", "Market price must be at least $1")
              ELSE IF RGreater(in.marketPrice, Num(1000))
              THEN Put(<<>>, "marketPrice", "Market price cannot exceed $500")
              ELSE <<>>
        e2 == IF RLess(in.dividendAmount, Num(0))
              THEN Put(e1, "dividendAmount", "Dividend cannot be negative")
              ELSE IF RGreater(in.dividendAmount, Num(50))
              THEN Put(e1, "dividendAmount", "Dividend cannot exceed $50")
              ELSE e1
    IN  IF RLess(in.growthRate, Num(0))
        THEN Put(e2, "growthRate", "Growth rate cannot be negative")
        ELSE IF RGreater(in.growthRate, Num(25))
        THEN Put(e2, "growthRate", "Growth rate cannot exceed 25%")
        ELSE e2

App_validateInputs(in) ==
    LET e1 == IF Not(in.marketPrice) \/ RLess(in.marketPrice, Num(1))
              THEN Put(<<>>, "marketPrice", "Market price must be at least $1")
              ELSE IF RGreater(in.marketPrice, Num(500))
              THEN Put(<<>>, "marketPrice", "Market price cannot exceed $500")
              ELSE <<>>
        e2 == IF RLess(in.dividendAmount, Num(0))
              THEN Put(e1, "dividendAmount", "Dividend cannot be negative")
              ELSE IF RGreater(in.dividendAmount, Num(50))
              THEN Put(e1, "dividendAmount", "Dividend cannot exceed $50")
              ELSE e1
    IN  IF RLess(in.growthRate, Num(0))
        THEN Put(e2, "growthRate", "Growth rate cannot be negative")
        ELSE IF RGreater(in.growthRate, Num(25))
        THEN Put(e2, "growthRate", "Growth rate cannot exceed 25%")
        ELSE e2

RECURSIVE App_CashflowLoop(_, _, _, _, _)
App_CashflowLoop(year, cashflows, d0, g, price) ==
    IF year <= 10
    THEN LET entry ==
               IF year = 0
               THEN [year |-> year, dividend |-> Num(0),
                     investment |-> RNeg(price), total |-> RNeg(price)]
               ELSE LET dividend == RMul(d0, RPow(RAdd(Num(1), g), year))
                    IN  [year |-> year, dividend |-> dividend,
                         investment |-> Num(0), total |-> dividend]
         IN  App_CashflowLoop(year + 1, Append(cashflows, entry), d0, g, price)
    ELSE cashflows

App_ModelMemo(in, errs) ==
    IF Cardinality(DOMAIN errs) > 0 THEN NULL
    ELSE LET g     == RDiv(in.growthRate, Num(100))
             d0    == in.dividendAmount
             d1    == RMul(d0, RAdd(Num(1), g))
             price == in.marketPrice
             requiredReturn    == RAdd(RDiv(d1, price), g)
             requiredReturnPct == RMul(requiredReturn, Num(100))
         IN  [requiredReturn |-> requiredReturnPct,
              d1             |-> d1,
              cashflows      |-> App_CashflowLoop(0, <<>>, d0, g, price),
              isValid        |-> RLess(g, requiredReturn)
                                 /\ RGreater(requiredReturnPct, Num(0))]

\* ReturnChart's chartData memo
App_ChartData(m) ==
    [i \in 1..Len(m.cashflows) |->
        [yearLabel          |-> NatToString(m.cashflows[i].year),
         year               |-> m.cashflows[i].year,
         dividendFlow       |-> m.cashflows[i].dividend,
         investmentFlow     |-> m.cashflows[i].investment,
         requiredReturnLine |-> m.requiredReturn]]

\* App renders ResultsSection and ReturnChart for a valid model, the
\* ValidationMessage list, and has no element for an invalid model
App_ViewOf(errs, m) ==
    [fieldErrors |-> errs,
     messages    |-> ValidationMessage(errs),
     warning     |-> FALSE,
     result      |-> m # NULL /\ m.isValid,
     table       |-> <<>>,
     chart       |-> IF m # NULL /\ m.isValid THEN App_ChartData(m) ELSE <<>>]

App_SetField(prev, field, value) == [prev EXCEPT ![field] = ToNumber(value)]

App_handleInputChange(field, value) ==
    /\ appInputs' = App_SetField(appInputs, field, value)
    /\ appInputErrors' = App_validateInputs(appInputs')
    /\ appModel' = App_ModelMemo(appInputs', appInputErrors')
    /\ appView' = App_ViewOf(appInputErrors', appModel')

-----------------------------------------------------------------------------
(* Specifications.                                                         *)

Init ==
    LET errs == validateInputs(DefaultInputs)
        m    == ModelMemo(DefaultInputs, errs)
        rows == ChartData(m)
        appErrs == App_validateInputs(App_DefaultInputs)
        appM    == App_ModelMemo(App_DefaultInputs, appErrs)
    IN  /\ inputs = DefaultInputs
        /\ inputErrors = errs
        /\ model = m
        /\ deps = <<0, 0>>
        /\ chartData = rows
        /\ view = ViewOf(errs, m, rows)
        /\ pending = <<>>
        /\ processed = 0
        /\ appInputs = App_DefaultInputs
        /\ appInputErrors = appErrs
        /\ appModel = appM
        /\ appView = App_ViewOf(appErrs, appM)

\* the same event stream drives both implementations, one render per event
Next == \E field \in Fields : \E value \in EventValues[field] :
            /\ handleInputChange(field, value)
            /\ App_handleInputChange(field, value)

Spec == Init /\ [][Next]_vars

\* Events dispatched before React renders: the updaters wait in the queue
\* of RequiredReturnCalculator and one render applies them all.
MaxQueue == 2

BatchedEventValues ==
    [marketPrice    |-> { <<>>, <<"5", "0">> },
     dividendAmount |-> { <<"4", "0">> },
     growthRate     |-> { <<"2", "0">> }]

Dispatch(field, value) ==
    /\ Len(pending) < MaxQueue
    /\ pending' = Append(pending, Updater(field, value))
    /\ UNCHANGED <<inputs, inputErrors, model, deps, chartData, view, processed>>
    /\ UNCHANGED appVars

Flush ==
    /\ pending # <<>>
    /\ RenderQueue(pending)
    /\ UNCHANGED appVars

NextBatched ==
    \/ \E field \in Fields : \E value \in BatchedEventValues[field] :
          Dispatch(field, value)
    \/ Flush

SpecBatched == Init /\ [][NextBatched]_vars

-----------------------------------------------------------------------------
(* Properties.                                                             *)

Between(x, lo, hi) == ~RLess(x, Num(lo)) /\ ~RGreater(x, Num(hi))

Entry(errs, f) == IF f \in DOMAIN errs THEN errs[f] ELSE "none"

TypeOK ==
    /\ DOMAIN inputs = Fields
    /\ DOMAIN inputErrors \subseteq Fields
    /\ \A f \in DOMAIN inputErrors :
          inputErrors[f] \in {MsgPriceLow, MsgPriceHigh, MsgDividendLow,
                              MsgDividendHigh, MsgGrowthLow, MsgGrowthHigh}

\* C1: after any sequence of input changes a model is present exactly when
\* the validation mapping of the current inputs is empty; with any field in
\* error the model is null.
C1_ModelIffNoErrors ==
    /\ inputErrors = validateInputs(inputs)
    /\ (model = NULL) <=> (ObjectKeysLength(inputErrors) > 0)
    /\ (\E f \in Fields : f \in DOMAIN inputErrors) => model = NULL
    /\ (\A f \in Fields : f \notin DOMAIN inputErrors) => model # NULL

C1_Witness ==
    /\ inputs # DefaultInputs
    /\ DOMAIN inputErrors = {"dividendAmount"}
    /\ model = NULL

\* C2 as stated: the mapping is empty iff marketPrice is in (1, 500],
\* dividendAmount in [0, 50] and growthRate in [0, 25].
C2_Original ==
    /\ TypeOK
    /\ (inputErrors = <<>>) <=>
          /\ RGreater(inputs.marketPrice, Num(1))
          /\ ~RGreater(inputs.marketPrice, Num(500))
          /\ Between(inputs.dividendAmount, 0, 50)
          /\ Between(inputs.growthRate, 0, 25)

\* C2 amended: the validator always returns a mapping over the three field
\* names, and the mapping is empty iff marketPrice is in [1, 500] (1 itself
\* is accepted), dividendAmount in [0, 50] and growthRate in [0, 25].
C2_ValidatorExact ==
    /\ TypeOK
    /\ (inputErrors = <<>>) <=>
          /\ Between(inputs.marketPrice, 1, 500)
          /\ Between(inputs.dividendAmount, 0, 50)
          /\ Between(inputs.growthRate, 0, 25)

C2_Witness ==
    /\ REq(inputs.marketPrice, Num(1))
    /\ inputErrors = <<>>

\* C3: marketPrice gets "must be at least $1" when it is missing (an emptied
\* field, coerced to 0), zero, negative or below 1, "cannot exceed $500"
\* when above 500, and no entry otherwise; never both messages.
C3_PriceMessages ==
    LET p == inputs.marketPrice
        e == Entry(inputErrors, "marketPrice")
    IN  /\ IsZero(ToNumber(<<>>))
        /\ e \in {"none", MsgPriceLow, MsgPriceHigh}
        /\ (e = MsgPriceLow) <=> (IsZero(p) \/ RLess(p, Num(0)) \/ RLess(p, Num(1)))
        /\ (e = MsgPriceHigh) <=> RGreater(p, Num(500))
        /\ (p = ToNumber(<<>>)) => e = MsgPriceLow

C3_Witness ==
    /\ inputs.marketPrice = ToNumber(<<>>)
    /\ inputErrors["marketPrice"] = MsgPriceLow

\* C4: dividendAmount gets "cannot be negative" exactly when < 0, "cannot
\* exceed $50" exactly when > 50, no entry in [0, 50]; an out-of-range
\* dividendAmount leaves no model even when the other two fields are valid.
C4_DividendMessages ==
    LET d == inputs.dividendAmount
        e == Entry(inputErrors, "dividendAmount")
    IN  /\ (e = MsgDividendLow) <=> RLess(d, Num(0))
        /\ (e = MsgDividendHigh) <=> RGreater(d, Num(50))
        /\ Between(d, 0, 50) <=> (e = "none")
        /\ ~Between(d, 0, 50) => model = NULL

C4_Witness ==
    /\ REq(inputs.dividendAmount, Num(60))
    /\ Between(inputs.marketPrice, 1, 500)
    /\ Between(inputs.growthRate, 0, 25)
    /\ inputErrors = [dividendAmount |-> MsgDividendHigh]
    /\ model = NULL

\* C5: growthRate gets "cannot be negative" exactly when < 0, "cannot exceed
\* 25%" exactly when > 25, and no entry in [0, 25], both ends included.
C5_GrowthMessages ==
    LET g == inputs.growthRate
        e == Entry(inputErrors, "growthRate")
    IN  /\ (e = MsgGrowthLow) <=> RLess(g, Num(0))
        /\ (e = MsgGrowthHigh) <=> RGreater(g, Num(25))
        /\ Between(g, 0, 25) <=> (e = "none")

C5_Witness ==
    /\ REq(inputs.growthRate, Num(25))
    /\ "growthRate" \notin DOMAIN inputErrors

Violated(f, x) ==
    CASE f = "marketPrice"    -> ~Between(x, 1, 500)
      [] f = "dividendAmount" -> ~Between(x, 0, 50)
      [] f = "growthRate"     -> ~Between(x, 0, 25)

\* C6: the entry of a field depends on that field's value alone (it is the
\* entry the same value gets next to default values of the other fields),
\* and the mapping has an entry for exactly the violated fields.
C6_FieldsIndependent ==
    /\ \A f \in Fields :
          Entry(inputErrors, f) =
             Entry(validateInputs([DefaultInputs EXCEPT ![f] = inputs[f]]), f)
    /\ DOMAIN inputErrors = {f \in Fields : Violated(f, inputs[f])}

C6_Witness ==
    /\ DOMAIN inputErrors = Fields
    /\ \A f \in Fields : Violated(f, inputs[f])

\* the decimal growth rate of the current inputs
GrowthDecimal == RDiv(inputs.growthRate, Num(100))

\* C7: for validated inputs d1 = dividendAmount * (1 + growthRate/100) and
\* the required return in percent is
\* 100 * ((dividendAmount * (1 + g) / marketPrice) + g); for the default
\* inputs that is 16.3457...% = 55739/3410 with d1 = 5.4264.
C7_RequiredReturn ==
    model # NULL =>
       LET g  == GrowthDecimal
           d0 == inputs.dividendAmount
           p  == inputs.marketPrice
       IN  /\ REq(model.d1, RMul(d0, RAdd(Num(1), g)))
           /\ REq(model.requiredReturn,
                  RMul(Num(100), RAdd(RDiv(RMul(d0, RAdd(Num(1), g)), p), g)))
           /\ inputs = DefaultInputs =>
                 /\ REq(model.d1, Dec(54264, 10000))
                 /\ REq(model.requiredReturn, Dec(55739, 3410))

C7_Witness ==
    /\ model # NULL
    /\ REq(inputs.marketPrice, Num(50))
    /\ REq(inputs.dividendAmount, Num(40))
    /\ REq(inputs.growthRate, Num(20))
    /\ REq(model.d1, Num(48))
    /\ REq(model.requiredReturn, Num(116))

\* C8: for validated inputs the cashflows have exactly 11 entries, for the
\* years 0, 1, ..., 10 in that order, and entry 0 has investment
\* -marketPrice and dividend 0.
C8_CashflowShape ==
    model # NULL =>
       /\ Len(model.cashflows) = 11
       /\ \A i \in 1..Len(model.cashflows) : model.cashflows[i].year = i - 1
       /\ REq(RAdd(model.cashflows[1].investment, inputs.marketPrice), Num(0))
       /\ model.cashflows[1].investment.neg
       /\ IsZero(model.cashflows[1].dividend)

C8_Witness ==
    /\ model # NULL
    /\ inputs # DefaultInputs
    /\ Len(model.cashflows) = 11
    /\ model.cashflows[11].year = 10
    /\ REq(model.cashflows[1].investment, RNeg(Num(500)))

\* C9: for validated inputs and every year y in 1..10 the dividend of year y
\* is dividendAmount * (1 + g)^y (so year 1 carries d1 and each later year
\* is the year before times 1 + g) and the investment of year y is 0; the
\* outlay is at year 0 only.
C9_DividendGrowth ==
    model # NULL =>
       LET g  == GrowthDecimal
           d0 == inputs.dividendAmount
           cf == model.cashflows
       IN  /\ \A y \in 1..10 :
                 /\ REq(cf[y + 1].dividend, RMul(d0, RPow(RAdd(Num(1), g), y)))
                 /\ IsZero(cf[y + 1].investment)
           /\ REq(cf[2].dividend, model.d1)
           /\ \A y \in 2..10 :
                 REq(cf[y + 1].dividend, RMul(cf[y].dividend, RAdd(Num(1), g)))
           /\ ~IsZero(cf[1].investment)

C9_Witness ==
    /\ model # NULL
    /\ REq(inputs.dividendAmount, Num(40))
    /\ REq(inputs.growthRate, Num(20))
    /\ REq(model.cashflows[3].dividend, Dec(576, 10))
    /\ IsZero(model.cashflows[3].investment)

\* C10: isValid is true iff the decimal growth rate is strictly below the
\* decimal required return and the required return in percent is strictly
\* positive; with growth rate equal to required return isValid is false.
C10_IsValid ==
    model # NULL =>
       LET g == GrowthDecimal
           r == RDiv(model.requiredReturn, Num(100))
       IN  /\ model.isValid <=> (RLess(g, r) /\ RGreater(model.requiredReturn, Num(0)))
           /\ REq(g, r) => ~model.isValid

C10_Witness ==
    /\ model # NULL
    /\ REq(GrowthDecimal, RDiv(model.requiredReturn, Num(100)))
    /\ RGreater(model.requiredReturn, Num(0))
    /\ ~model.isValid

\* the claim of C11 for one component: its errors, model and page
WarningStateOK(errs, m, v) ==
    /\ (errs = <<>> /\ m # NULL /\ ~m.isValid) =>
          (v.warning /\ ~v.result /\ v.chart = <<>>)
    /\ v.warning => errs = <<>>
    /\ m # NULL => v.messages = <<>>

\* C11: in both implementations, whenever the inputs are in range and the
\* model's isValid is false the page shows the "growth rate must be less
\* than required return" warning and hides result and chart; the warning is
\* never shown next to input-range errors, and input-range messages are
\* never shown next to a model.
C11_WarningState ==
    /\ WarningStateOK(inputErrors, model, view)
    /\ WarningStateOK(appInputErrors, appModel, appView)

\* RequiredReturnCalculator alone keeps the warning state of C11.
CalculatorWarningState == WarningStateOK(inputErrors, model, view)

RowsOK(rows, m) ==
    /\ Len(rows) = 11
    /\ \A i \in 1..Len(rows) :
          /\ rows[i].year = i - 1
          /\ rows[i].year = m.cashflows[i].year
          /\ REq(rows[i].requiredReturnLine, m.requiredReturn)
          /\ REq(rows[i].requiredReturnLine, rows[1].requiredReturnLine)
          /\ REq(rows[i].dividendFlow, m.cashflows[i].dividend)
          /\ REq(rows[i].investmentFlow, m.cashflows[i].investment)

\* C12: each of the 11 projection entries given to the chart carries the
\* model's required return in percent (the same on every entry), and the
\* dividend and investment of the cashflow entry of the same year.
C12_ChartRows ==
    /\ model # NULL => RowsOK(chartData, model)
    /\ view.chart # <<>> => (view.chart = chartData /\ RowsOK(view.chart, model))
    /\ appView.chart # <<>> => RowsOK(appView.chart, appModel)

C12_Witness ==
    /\ inputs # DefaultInputs
    /\ model # NULL
    /\ view.chart = chartData
    /\ Len(chartData) = 11
    /\ REq(chartData[11].requiredReturnLine, Num(116))
    /\ REq(chartData[1].investmentFlow, RNeg(Num(50)))

\* C13: after any sequence of input changes the errors and the model are
\* those computed from scratch on the current input record; nothing of an
\* earlier record survives in the memo.
C13_FunctionOfInputs ==
    /\ inputErrors = validateInputs(inputs)
    /\ model = ModelMemo(inputs, validateInputs(inputs))
    /\ appInputErrors = App_validateInputs(appInputs)
    /\ appModel = App_ModelMemo(appInputs, App_validateInputs(appInputs))

C13_Witness ==
    /\ processed = 1
    /\ deps = <<0, 0>>
    /\ inputs # DefaultInputs
    /\ model # NULL
    /\ model # ModelMemo(DefaultInputs, <<>>)

\* the value the queue leaves in field f: the last queued value for f,
\* else the value f had
LastQueued(queue, f, old) ==
    LET idx == {i \in 1..Len(queue) : queue[i].field = f}
    IN  IF idx = {} THEN old
        ELSE ToNumber(queue[CHOOSE i \in idx : \A j \in idx : j <= i].value)

\* C14: queued input changes are all applied by the next render, in
\* dispatch order: each field ends with its most recently queued value,
\* fields without a queued change keep their value, a dispatch only appends
\* to the queue, and errors and model are those of the resulting record.
C14_QueuedChanges ==
    [][ /\ (pending # <<>> /\ pending' = <<>>) =>
             /\ \A f \in Fields : inputs'[f] = LastQueued(pending, f, inputs[f])
             /\ processed' = Len(pending)
             /\ inputErrors' = validateInputs(inputs')
             /\ model' = ModelMemo(inputs', validateInputs(inputs'))
        /\ pending' # <<>> =>
             /\ Len(pending') = Len(pending) + 1
             /\ SubSeq(pending', 1, Len(pending)) = pending
             /\ inputs' = inputs /\ model' = model
      ]_vars

C14_Witness ==
    /\ processed = 2
    /\ pending = <<>>
    /\ REq(inputs.marketPrice, Num(50))
    /\ REq(inputs.dividendAmount, Num(40))
    /\ inputs.growthRate = DefaultInputs.growthRate
    /\ model # NULL

\* C15: driven by the same input changes from the same defaults, the two
\* implementations hold the same input record, the same validation mapping
\* and the same model in every step.
C15_SameComputation ==
    /\ inputs = appInputs
    /\ inputErrors = appInputErrors
    /\ model = appModel

C15_Witness ==
    /\ inputs # DefaultInputs
    /\ appInputs = inputs
    /\ RGreater(appInputs.marketPrice, Num(500))
    /\ appInputErrors = [marketPrice |-> MsgPriceHigh]
    /\ appModel = NULL

\* C16: for validated inputs the required return is never below the growth
\* rate, isValid is false exactly when dividendAmount is 0 (required return
\* then equals the growth rate), and every validated triple with a positive
\* dividend, growthRate 20 / dividendAmount 40 / marketPrice 50 included,
\* has isValid true.
C16_ValidUnlessNoDividend ==
    model # NULL =>
       /\ ~RLess(model.requiredReturn, inputs.growthRate)
       /\ ~model.isValid <=> IsZero(inputs.dividendAmount)
       /\ IsZero(inputs.dividendAmount) =>
             REq(model.requiredReturn, inputs.growthRate)
       /\ RGreater(inputs.dividendAmount, Num(0)) =>
             (model.isValid /\ RGreater(model.requiredReturn, inputs.growthRate))

C16_Witness ==
    /\ REq(inputs.growthRate, Num(20))
    /\ REq(inputs.dividendAmount, Num(40))
    /\ REq(inputs.marketPrice, Num(50))
    /\ model # NULL
    /\ model.isValid

\* C17: an input-change event for one field puts the numeric coercion of the
\* new text in that field, leaves the other two fields as they were, keeps
\* the field set {marketPrice, dividendAmount, growthRate}, and installs a
\* new record object instead of changing the previous one.
C17_FrameOfChange ==
    [][ pending = <<>> /\ pending' = <<>> =>
          \E f \in Fields : \E v \in EventValues[f] :
             /\ inputs'[f] = ToNumber(v)
             /\ \A h \in Fields \ {f} : inputs'[h] = inputs[h]
             /\ DOMAIN inputs' = Fields
             /\ deps'[1] # deps[1]
      ]_vars

C17_Witness ==
    /\ processed = 1
    /\ deps[1] = 1
    /\ inputs.marketPrice = ToNumber(<<"5", "0", "0">>)
    /\ inputs.dividendAmount = DefaultInputs.dividendAmount
    /\ inputs.growthRate = DefaultInputs.growthRate

====
